---- MODULE Spec2Model ----
(***************************************************************************)
(* Model of the sidecar supervisor of src-tauri/src/lib.rs: the shared     *)
(* PythonBackend state, the start_backend command with its port handshake, *)
(* the query commands, the file commands and the background auto-start.    *)
(***************************************************************************)
EXTENDS Integers, Sequences, FiniteSets, TLC

(***************************************************************************)
(* Bounds of the model.                                                    *)
(***************************************************************************)
\* children the model lets the supervisor spawn in one run
MaxChildren == 2
\* SpecReader: filler lines before the lines of interest
MaxPad == 11
\* SpecReader: lines of interest in a stream
MaxBody == 2
\* SpecReader: filler lines after the lines of interest
MaxTail == 1

(***************************************************************************)
(* Program constants.                                                      *)
(***************************************************************************)
\* Option::None of both fields of PythonBackend and of the local `port`
None == -1
\* the development port stored by start_backend
DevPort == 8080
\* a budget of one line more
LineBudgetOneMore == 10 + 1
\* reader.lines().take(10)
LineBudget == 10
\* largest value parse::<u16>() accepts
U16Max == 65535

\* the holder of a Mutex nobody holds
Free == "free"

Development == "Development"
Production == "Production"

(***************************************************************************)
(* Lines of text, as sequences of characters.                              *)
(***************************************************************************)
\* "PORT:"
PortPrefix ==
    <<"P", "O", "R", "T", ":">>
\* "Booting..."
LBooting ==
    <<"B", "o", "o", "t", "i", "n", "g", ".", ".", ".">>
\* "Ready"
LReady ==
    <<"R", "e", "a", "d", "y">>
\* "PORT:54321"
LPort54321 ==
    <<"P", "O", "R", "T", ":", "5", "4", "3", "2", "1">>
\* "PORT: 443 "
LPortPadded ==
    <<"P", "O", "R", "T", ":", " ", "4", "4", "3", " ">>
\* "PORT:+7"
LPortPlus ==
    <<"P", "O", "R", "T", ":", "+", "7">>
\* "PORT:0"
LPortZero ==
    <<"P", "O", "R", "T", ":", "0">>
\* "PORT:65535"
LPortMax ==
    <<"P", "O", "R", "T", ":", "6", "5", "5", "3", "5">>
\* "PORT:65536"
LPortOver ==
    <<"P", "O", "R", "T", ":", "6", "5", "5", "3", "6">>
\* "PORT:8x"
LPortAlpha ==
    <<"P", "O", "R", "T", ":", "8", "x">>
\* " PORT:9"
LIndented ==
    <<" ", "P", "O", "R", "T", ":", "9">>

\* an item of reader.lines(): Ok(text) or Err (a line that is not UTF-8)
OkLine(text) == [ok |-> TRUE, text |-> text]
ErrLine == [ok |-> FALSE, text |-> <<>>]

(***************************************************************************)
(* str::starts_with, str::trim and str::parse::<u16>().                    *)
(***************************************************************************)
DigitChars == {"0", "1", "2", "3", "4", "5", "6", "7", "8", "9"}

DigitVal(c) ==
    CASE c = "0" -> 0 [] c = "1" -> 1 [] c = "2" -> 2 [] c = "3" -> 3
      [] c = "4" -> 4 [] c = "5" -> 5 [] c = "6" -> 6 [] c = "7" -> 7
      [] c = "8" -> 8 [] c = "9" -> 9

IsWhitespace(c) == c \in {" ", "\t", "\r", "\n"}

StartsWith(s, p) ==
    /\ Len(s) >= Len(p)
    /\ SubSeq(s, 1, Len(p)) = p

RECURSIVE TrimStart(_)
TrimStart(s) ==
    IF s # <<>> /\ IsWhitespace(Head(s)) THEN TrimStart(Tail(s)) ELSE s

RECURSIVE TrimEnd(_)
TrimEnd(s) ==
    IF s # <<>> /\ IsWhitespace(s[Len(s)])
    THEN TrimEnd(SubSeq(s, 1, Len(s) - 1))
    ELSE s

Trim(s) == TrimEnd(TrimStart(s))

\* the digit loop of from_str_radix: checked_mul(10) then checked_add(digit)
RECURSIVE ParseDigits(_, _)
ParseDigits(s, acc) ==
    IF s = <<>> THEN acc
    ELSE IF Head(s) \notin DigitChars THEN None
    ELSE IF acc * 10 + DigitVal(Head(s)) > U16Max THEN None
    ELSE ParseDigits(Tail(s), acc * 10 + DigitVal(Head(s)))

\* a parse that reads the leading digits and stops at the first other character
RECURSIVE LeadingDigits(_, _)
LeadingDigits(s, acc) ==
    IF s = <<>> \/ Head(s) \notin DigitChars THEN acc
    ELSE IF acc * 10 + DigitVal(Head(s)) > U16Max THEN None
    ELSE LeadingDigits(Tail(s), acc * 10 + DigitVal(Head(s)))

ParseU16Lenient(s) == LeadingDigits(s, 0)

\* parse::<u16>(): None models Err(ParseIntError)
ParseU16(s) ==
    IF s = <<>> THEN None
    ELSE IF Len(s) = 1 /\ Head(s) \in {"+", "-"} THEN None
    ELSE IF Head(s) = "+" THEN ParseDigits(Tail(s), 0)
    ELSE ParseDigits(s, 0)

\* the loop body without the trim()
LinePortNoTrim(line) ==
    IF line.ok /\ StartsWith(line.text, PortPrefix)
    THEN ParseU16(SubSeq(line.text, Len(PortPrefix) + 1, Len(line.text)))
    ELSE None

\* the body of the handshake loop for one item: the port it yields, or None
LinePort(line) ==
    IF line.ok /\ StartsWith(line.text, PortPrefix)
    THEN ParseU16(Trim(SubSeq(line.text, Len(PortPrefix) + 1, Len(line.text))))
    ELSE None

(***************************************************************************)
(* Results of commands: Result<String, String>.                            *)
(***************************************************************************)
Ok(msg) == [st |-> "ok", msg |-> msg]
Err(msg) == [st |-> "err", msg |-> msg]
Pending == [st |-> "pending", msg |-> ""]

\* the Display text of an error of the operating system or of the host
OsErrors == {"os error"}

DevMessage ==
    "Development mode - Python backend should be started manually on port 8080"

\* a get_backend_url that reports the development port whatever is stored
GetBackendUrlFixed(p) ==
    IF p # None
    THEN Ok("http://localhost:8080")
    ELSE Err("Backend not started yet")

\* get_backend_url over the value read under the port lock
GetBackendUrl(p) ==
    IF p # None
    THEN Ok("http://localhost:" \o ToString(p))
    ELSE Err("Backend not started yet")

\* a get_backend_status with the development port written into its text
GetBackendStatusFixed(p) ==
    IF p # None
    THEN Ok("Backend status: Running on http://localhost:8080")
    ELSE Err("Backend not started yet")

\* get_backend_status: get_backend_url(..)? and the status text
GetBackendStatus(p) ==
    IF GetBackendUrl(p).st = "ok"
    THEN Ok("Backend status: Running on " \o GetBackendUrl(p).msg)
    ELSE GetBackendUrl(p)

StartedMessage(p) == "Backend started on port " \o ToString(p)

(***************************************************************************)
(* What a child writes to its standard output: the lines of its whole      *)
(* life, and whether it then closes the stream ("eof") or keeps it open    *)
(* and writes nothing more ("stall").                                      *)
(***************************************************************************)
Output(lines, end) == [lines |-> lines, end |-> end]

\* the outputs the children of the full model are drawn from
SpawnOutputs ==
    { Output(<<OkLine(LBooting), OkLine(LPort54321), OkLine(LReady)>>, "eof"),
      Output(<<OkLine(LPortZero)>>, "eof"),
      Output(<<OkLine(LPortOver), ErrLine>>, "eof"),
      Output(<<OkLine(LBooting)>>, "stall") }

\* "auto" is the task run() spawns; "cmd" runs the commands the front end
\* invokes, one call after the other
Tasks == {"auto", "cmd"}
Commands == {"start", "get_url", "get_status", "save", "open"}

\* the save dialog's answers (Option<FilePath>) and the bytes to save
SavePath == "/home/user/report.csv"
DialogAnswers == {"none", "url", "path"}
Contents == {<<104, 105>>, <<>>}

VARIABLES
    mode,       \* cfg!(debug_assertions): Development or Production
    process,    \* PythonBackend.process: None or the stored child
    port,       \* PythonBackend.port: None or the stored port
    pc,         \* where each task is
    result,     \* what the command running on each task returned
    child,      \* start_backend's local `child`, per task
    lport,      \* start_backend's local `port`, per task
    nread,      \* items taken from reader.lines().take(10), per task
    children,   \* every child spawned so far: its output and whether it runs
    files,      \* the files written by save_file_with_dialog
    lastStart,  \* history: None, 0 after a Development start, else the child
                \* of the last start_backend that stored its port
    procLock,   \* the task holding the lock of PythonBackend.process, or Free
    portLock,   \* the task holding the lock of PythonBackend.port, or Free
    arg         \* the `content` of the save_file_with_dialog call under way

vars ==
    <<mode, process, port, pc, result, child, lport, nread, children, files,
      lastStart, procLock, portLock, arg>>

ChildIds == 1..Len(children)
Alive == {c \in ChildIds : children[c].alive}

\* run(): managed state with both fields None; the auto-start task exists in
\* Production only
Init ==
    /\ mode \in {Development, Production}
    /\ process = None
    /\ port = None
    /\ pc = [t \in Tasks |->
               IF t = "auto"
               THEN IF mode = Production THEN "sleep" ELSE "off"
               ELSE "idle"]
    /\ result = [t \in Tasks |-> Pending]
    /\ child = [t \in Tasks |-> None]
    /\ lport = [t \in Tasks |-> None]
    /\ nread = [t \in Tasks |-> 0]
    /\ children = <<>>
    /\ files = {}
    /\ lastStart = None
    /\ procLock = Free
    /\ portLock = Free
    /\ arg = <<>>

\* an auto-start task that sleeps and calls start_backend again after an Err
AfterReturnRetry(t, r) ==
    IF t = "auto" THEN (IF r.st = "err" THEN "sleep" ELSE "done") ELSE "idle"

\* where a task goes when its call returns r: the auto-start task prints an
\* Err and ends, the front end's task is free for the next command
AfterReturn(t, r) == IF t = "auto" THEN "done" ELSE "idle"

\* a command returns r on task t: its locals die
Return(t, r) ==
    /\ result' = [result EXCEPT ![t] = r]
    /\ pc' = [pc EXCEPT ![t] = AfterReturn(t, r)]
    /\ child' = [child EXCEPT ![t] = None]
    /\ lport' = [lport EXCEPT ![t] = None]
    /\ nread' = [nread EXCEPT ![t] = 0]

Goto(t, label) == pc' = [pc EXCEPT ![t] = label]

\* the front end invokes a command
Invoke(t, c) ==
    /\ t = "cmd"
    /\ pc[t] = "idle"
    /\ Goto(t, c)
    /\ result' = [result EXCEPT ![t] = Pending]
    /\ arg' \in (IF c = "save" THEN Contents ELSE {<<>>})
    /\ UNCHANGED <<mode, process, port, child, lport, nread, children, files,
                   lastStart, procLock, portLock>>

\* the spawned task's sleep is over: it calls start_backend
AutoStart(t) ==
    /\ t = "auto"
    /\ pc[t] = "sleep"
    /\ Goto(t, "start")
    /\ UNCHANGED <<mode, process, port, result, child, lport, nread, children,
                   files, lastStart, procLock, portLock, arg>>

\* a Development branch that toggles the port field
DevStoredPortToggle == IF port = None THEN DevPort ELSE None

\* what the Development branch assigns to the port field
DevStoredPort == DevPort

\* start_backend, debug build: store the port, return
StartDev(t) ==
    /\ pc[t] = "start"
    /\ mode = Development
    /\ portLock = Free
    /\ port' = DevStoredPort
    /\ lastStart' = 0
    /\ Return(t, Ok(DevMessage))
    /\ UNCHANGED <<mode, process, children, files, procLock, portLock, arg>>

\* resource_dir() succeeded: the sidecar path is known
ResolveOk(t) ==
    /\ pc[t] = "start"
    /\ mode = Production
    /\ Goto(t, "spawn")
    /\ UNCHANGED <<mode, process, port, result, child, lport, nread, children,
                   files, lastStart, procLock, portLock, arg>>

\* a failing start_backend that resets a field
FailedStartProcessCleared == None
FailedStartPortCleared == None

\* the fields of PythonBackend after a start_backend that returns Err: the
\* `?` returns come before any store
FailedStartProcess == process
FailedStartPort == port

StartFails(t, msg) ==
    /\ process' = FailedStartProcess
    /\ port' = FailedStartPort
    /\ Return(t, Err(msg))
    /\ UNCHANGED <<mode, children, files, lastStart, procLock, portLock, arg>>

\* a drop of a Child that ends the process it names
DropChildKills(c) ==
    IF c \in ChildIds
    THEN [children EXCEPT ![c].alive = FALSE, ![c].out.end = "eof"]
    ELSE children

\* the children after the drop of the Child value c (or of None): Child has no
\* Drop that kills or waits, the process goes on
DropChild(c) == children

\* resource_dir() failed
ResolveFail(t) ==
    /\ pc[t] = "start"
    /\ mode = Production
    /\ \E e \in OsErrors : StartFails(t, "Failed to get resource dir: " \o e)

\* Command::spawn() succeeded: a new child runs, its stdout is piped, so that
\* child.stdout.take() is Some and "Failed to capture stdout" is never returned
SpawnOk(t) ==
    /\ pc[t] = "spawn"
    /\ Len(children) < MaxChildren
    /\ \E o \in SpawnOutputs :
          children' = Append(children, [out |-> o, alive |-> TRUE])
    /\ child' = [child EXCEPT ![t] = Len(children) + 1]
    /\ lport' = [lport EXCEPT ![t] = None]
    /\ nread' = [nread EXCEPT ![t] = 0]
    /\ Goto(t, "read")
    /\ UNCHANGED <<mode, process, port, result, files, lastStart, procLock, portLock, arg>>

\* Command::spawn() failed
SpawnFail(t) ==
    /\ pc[t] = "spawn"
    /\ \E e \in OsErrors : StartFails(t, "Failed to start backend: " \o e)

\* one iteration of the handshake loop: the next item is there and the budget
\* is not used up
ReadLine(t) ==
    /\ pc[t] = "read"
    /\ nread[t] < LineBudget
    /\ nread[t] < Len(children[child[t]].out.lines)
    /\ nread' = [nread EXCEPT ![t] = nread[t] + 1]
    /\ LET p == LinePort(children[child[t]].out.lines[nread[t] + 1])
       IN  IF p # None
           THEN /\ lport' = [lport EXCEPT ![t] = p]
                /\ Goto(t, "check")
           ELSE /\ UNCHANGED lport
                /\ Goto(t, "read")
    /\ UNCHANGED <<mode, process, port, result, child, children, files,
                   lastStart, procLock, portLock, arg>>

\* a loop that also gives up when the child has nothing more to say
LoopEndsOrStalled(t) ==
    \/ nread[t] = LineBudget
    \/ nread[t] = Len(children[child[t]].out.lines)

\* the iterator yields None: take(10) is used up or the stream has ended
LoopEnds(t) ==
    \/ nread[t] = LineBudget
    \/ /\ nread[t] = Len(children[child[t]].out.lines)
       /\ children[child[t]].out.end = "eof"

\* the loop ends without a port
ReadEnd(t) ==
    /\ pc[t] = "read"
    /\ LoopEnds(t)
    /\ Goto(t, "check")
    /\ UNCHANGED <<mode, process, port, result, child, lport, nread, children,
                   files, lastStart, procLock, portLock, arg>>

\* port.ok_or(..)? on None: start_backend returns, `child` is dropped (the
\* process it names keeps running)
PortMissing(t) ==
    /\ pc[t] = "check"
    /\ lport[t] = None
    /\ process' = FailedStartProcess
    /\ port' = FailedStartPort
    /\ children' = DropChild(child[t])
    /\ Return(t, Err("Failed to read port from backend"))
    /\ UNCHANGED <<mode, files, lastStart, procLock, portLock, arg>>

\* port.ok_or(..)? on Some
PortFound(t) ==
    /\ pc[t] = "check"
    /\ lport[t] # None
    /\ Goto(t, "store_process")
    /\ UNCHANGED <<mode, process, port, result, child, lport, nread, children,
                   files, lastStart, procLock, portLock, arg>>

\* a store of the handle whose guard lives on to the end of the function
ProcessLockAfterStoreKept(t) == t

\* the holder of the process lock after line 58: the guard is a temporary of
\* the statement and is dropped with it
ProcessLockAfterStore(t) == Free

\* a store of the handle that stores the port with it
PortAtHandleStoreEarly(t) == lport[t]

\* the port field after line 58
PortAtHandleStore(t) == port

\* *state.process.lock().unwrap() = Some(child): lock, assign (the Child
\* stored before is dropped), unlock
StoreProcess(t) ==
    /\ pc[t] = "store_process"
    /\ procLock = Free
    /\ process' = child[t]
    /\ port' = PortAtHandleStore(t)
    /\ children' = DropChild(process)
    /\ procLock' = ProcessLockAfterStore(t)
    /\ Goto(t, "store_port")
    /\ UNCHANGED <<mode, result, child, lport, nread, files, lastStart,
                   portLock, arg>>

\* *state.port.lock().unwrap() = Some(port); Ok(..)
StorePort(t) ==
    /\ pc[t] = "store_port"
    /\ portLock = Free
    /\ port' = lport[t]
    /\ lastStart' = child[t]
    /\ Return(t, Ok(StartedMessage(lport[t])))
    /\ UNCHANGED <<mode, process, children, files, procLock, portLock, arg>>

\* let port = state.port.lock().unwrap(), in get_backend_url called as a
\* command or from get_backend_status
LockPort(t) ==
    /\ pc[t] \in {"get_url", "get_status"}
    /\ portLock = Free
    /\ portLock' = t
    /\ Goto(t, IF pc[t] = "get_url" THEN "url_locked" ELSE "status_locked")
    /\ UNCHANGED <<mode, process, port, result, child, lport, nread, children,
                   files, lastStart, procLock, arg>>

\* get_backend_url: match *port, return; the guard is dropped
GetUrl(t) ==
    /\ pc[t] = "url_locked"
    /\ portLock' = Free
    /\ Return(t, GetBackendUrl(port))
    /\ UNCHANGED <<mode, process, port, children, files, lastStart, procLock,
                   arg>>

\* get_backend_status: get_backend_url returns, then the status text
GetStatus(t) ==
    /\ pc[t] = "status_locked"
    /\ portLock' = Free
    /\ Return(t, GetBackendStatus(port))
    /\ UNCHANGED <<mode, process, port, children, files, lastStart, procLock,
                   arg>>

\* a write that loses the bytes
SavedBytesEmpty(content) == <<>>

\* the bytes fs::write puts into the file
SavedBytes(content) == content

\* save_file_with_dialog: blocking_save_file() answers
SaveDialog(t) ==
    /\ pc[t] = "save"
    /\ \E answer \in DialogAnswers :
          \/ /\ answer = "path"
             /\ Goto(t, "save_write")
             /\ UNCHANGED <<result, child, lport, nread, arg>>
          \/ /\ answer = "url"
             /\ arg' = <<>>
             /\ Return(t, Err("URL paths not supported"))
          \/ /\ answer = "none"
             /\ arg' = <<>>
             /\ Return(t, Err("Save cancelled"))
    /\ UNCHANGED <<mode, process, port, children, files, lastStart, procLock,
                   portLock>>

\* save_file_with_dialog: fs::write(&path, content) succeeds, or fails having
\* left the file as it was or having created or truncated it
SaveWrite(t) ==
    /\ pc[t] = "save_write"
    /\ \/ /\ files' = {f \in files : f.path # SavePath}
                        \cup {[path |-> SavePath, data |-> SavedBytes(arg)]}
          /\ Return(t, Ok(SavePath))
       \/ /\ \/ UNCHANGED files
             \/ files' = {f \in files : f.path # SavePath}
                           \cup {[path |-> SavePath, data |-> <<>>]}
          /\ \E e \in OsErrors : Return(t, Err("Failed to save file: " \o e))
    /\ arg' = <<>>
    /\ UNCHANGED <<mode, process, port, children, lastStart, procLock,
                   portLock>>

\* open_downloads_folder: the file manager is spawned or not
OpenDownloads(t) ==
    /\ pc[t] = "open"
    /\ \/ Return(t, Ok(""))
       \/ \E e \in OsErrors : Return(t, Err("Failed to open Downloads: " \o e))
    /\ UNCHANGED <<mode, process, port, children, files, lastStart, procLock, portLock, arg>>

\* a child ends by itself; with it its end of the pipe closes
ChildExit(c) ==
    /\ children[c].alive
    /\ children' = [children EXCEPT ![c].alive = FALSE, ![c].out.end = "eof"]
    /\ UNCHANGED <<mode, process, port, pc, result, child, lport, nread, files,
                   lastStart, procLock, portLock, arg>>

Next ==
    \/ \E c \in Commands : Invoke("cmd", c)
    \/ AutoStart("auto")
    \/ \E t \in Tasks : StartDev(t)
    \/ \E t \in Tasks : ResolveOk(t)
    \/ \E t \in Tasks : ResolveFail(t)
    \/ \E t \in Tasks : SpawnOk(t)
    \/ \E t \in Tasks : SpawnFail(t)
    \/ \E t \in Tasks : ReadLine(t)
    \/ \E t \in Tasks : ReadEnd(t)
    \/ \E t \in Tasks : PortMissing(t)
    \/ \E t \in Tasks : PortFound(t)
    \/ \E t \in Tasks : StoreProcess(t)
    \/ \E t \in Tasks : StorePort(t)
    \/ \E t \in Tasks : LockPort(t)
    \/ \E t \in Tasks : GetUrl(t)
    \/ \E t \in Tasks : GetStatus(t)
    \/ \E t \in Tasks : SaveDialog(t)
    \/ \E t \in Tasks : SaveWrite(t)
    \/ \E t \in Tasks : OpenDownloads(t)
    \/ \E c \in ChildIds : ChildExit(c)

Spec == Init /\ [][Next]_vars

(***************************************************************************)
(* SpecReader: the handshake of one start_backend call over a wide family  *)
(* of child outputs.  It starts right after that call's spawn succeeded,   *)
(* the auto-start having failed to resolve the resource directory.         *)
(***************************************************************************)
ReaderLines ==
    { OkLine(LPort54321), OkLine(LPortPadded), OkLine(LPortPlus),
      OkLine(LPortMax), OkLine(LPortOver), OkLine(LPortAlpha),
      OkLine(PortPrefix), OkLine(LIndented), ErrLine }

Repeat(line, n) == [i \in 1..n |-> line]

ReaderBodies == UNION {[1..k -> ReaderLines] : k \in 0..MaxBody}

ReaderOutputs ==
    { Output(Repeat(OkLine(LBooting), a) \o b \o Repeat(OkLine(LReady), c), e) :
        a \in 0..MaxPad, b \in ReaderBodies, c \in 0..MaxTail,
        e \in {"eof", "stall"} }

InitReader ==
    /\ mode = Production
    /\ process = None
    /\ port = None
    /\ pc = [t \in Tasks |-> IF t = "auto" THEN "done" ELSE "read"]
    /\ result = [t \in Tasks |->
                   IF t = "auto"
                   THEN Err("Failed to get resource dir: os error")
                   ELSE Pending]
    /\ child = [t \in Tasks |-> IF t = "auto" THEN None ELSE 1]
    /\ lport = [t \in Tasks |-> None]
    /\ nread = [t \in Tasks |-> 0]
    /\ \E o \in ReaderOutputs : children = <<[out |-> o, alive |-> TRUE]>>
    /\ files = {}
    /\ lastStart = None
    /\ procLock = Free
    /\ portLock = Free
    /\ arg = <<>>

NextReader ==
    \/ ReadLine("cmd")
    \/ ReadEnd("cmd")
    \/ PortMissing("cmd")
    \/ PortFound("cmd")
    \/ StoreProcess("cmd")
    \/ StorePort("cmd")

SpecReader == InitReader /\ [][NextReader]_vars

(***************************************************************************)
(* SpecHandshake: the same call over outputs that differ in their length,  *)
(* in where a port line stands, if any, and in whether the child then      *)
(* closes its output or leaves it open and silent for good.                *)
(***************************************************************************)
HandshakeBodies ==
    { <<>>, <<OkLine(LPort54321)>>, <<OkLine(LPortOver)>>, <<ErrLine>> }

HandshakeOutputs ==
    { Output(Repeat(OkLine(LBooting), a) \o b \o Repeat(OkLine(LReady), c), e) :
        a \in 0..MaxPad, b \in HandshakeBodies, c \in 0..MaxTail,
        e \in {"eof", "stall"} }

InitHandshake ==
    /\ mode = Production
    /\ process = None
    /\ port = None
    /\ pc = [t \in Tasks |-> IF t = "auto" THEN "done" ELSE "read"]
    /\ result = [t \in Tasks |->
                   IF t = "auto"
                   THEN Err("Failed to get resource dir: os error")
                   ELSE Pending]
    /\ child = [t \in Tasks |-> IF t = "auto" THEN None ELSE 1]
    /\ lport = [t \in Tasks |-> None]
    /\ nread = [t \in Tasks |-> 0]
    /\ \E o \in HandshakeOutputs : children = <<[out |-> o, alive |-> TRUE]>>
    /\ files = {}
    /\ lastStart = None
    /\ procLock = Free
    /\ portLock = Free
    /\ arg = <<>>

SpecHandshake == InitHandshake /\ [][NextReader]_vars

(***************************************************************************)
(* The handshake protocol as the specification words it, stated without    *)
(* the code's operators: a line announces a port when it begins with PORT: *)
(* and the rest, stripped of surrounding blanks, is a decimal numeral      *)
(* (a leading + allowed) of value at most 65535.                           *)
(***************************************************************************)
Numerals == <<"1", "2", "3", "4", "5", "6", "7", "8", "9">>

IsNumeral(c) == c = "0" \/ \E n \in 1..9 : Numerals[n] = c

NumeralValue(c) == IF c = "0" THEN 0 ELSE CHOOSE n \in 1..9 : Numerals[n] = c

RECURSIVE DecimalValue(_)
DecimalValue(d) ==
    IF d = <<>> THEN 0
    ELSE 10 * DecimalValue(SubSeq(d, 1, Len(d) - 1)) + NumeralValue(d[Len(d)])

Stripped(s) ==
    LET solid == {i \in 1..Len(s) : s[i] \notin {" ", "\t", "\r", "\n"}}
    IN  IF solid = {} THEN <<>>
        ELSE SubSeq(s, CHOOSE i \in solid : \A j \in solid : i <= j,
                       CHOOSE i \in solid : \A j \in solid : i >= j)

Unsigned(s) == IF s # <<>> /\ s[1] = "+" THEN SubSeq(s, 2, Len(s)) ELSE s

HasPortPrefix(line) ==
    /\ line.ok
    /\ Len(line.text) >= 5
    /\ line.text[1] = "P" /\ line.text[2] = "O" /\ line.text[3] = "R"
    /\ line.text[4] = "T" /\ line.text[5] = ":"

Remainder(line) == Stripped(SubSeq(line.text, 6, Len(line.text)))

Announces(line) ==
    /\ HasPortPrefix(line)
    /\ LET d == Unsigned(Remainder(line))
       IN  /\ d # <<>>
           /\ \A i \in 1..Len(d) : IsNumeral(d[i])
           /\ DecimalValue(d) <= 65535

Announced(line) == DecimalValue(Unsigned(Remainder(line)))

\* the 1-based places, among the first n lines, of the lines announcing a port
Announcing(lines, n) ==
    {i \in 1..Len(lines) : i <= n /\ Announces(lines[i])}

First(places) == CHOOSE i \in places : \A j \in places : i <= j

FirstAnnouncing(lines, n) == First(Announcing(lines, n))

\* the output read by the start_backend call of the front end in SpecReader
ReaderInput == children[1].out.lines

ReaderLoopDone == pc["cmd"] \in {"check", "store_process", "store_port"}

Scenario == <<OkLine(LBooting), OkLine(LPort54321), OkLine(LReady)>>

\* C2: when a line announcing a port stands at 0-based index i < 10, the first
\* such line, the handshake never takes more than i+1 lines, and once its loop
\* has ended it has taken exactly i+1 lines and holds that line's value; on
\* Booting..., PORT:54321, Ready it holds 54321 after exactly 2 lines.
C2_FirstPortLineWins ==
    /\ LET places == Announcing(ReaderInput, 10)
       IN  places # {} =>
              /\ nread["cmd"] <= First(places)
              /\ ReaderLoopDone =>
                    /\ nread["cmd"] = First(places)
                    /\ lport["cmd"] = Announced(ReaderInput[First(places)])
              /\ pc["cmd"] = "idle" =>
                    /\ result["cmd"].st = "ok"
                    /\ port = Announced(ReaderInput[First(places)])
    /\ (ReaderInput = Scenario /\ ReaderLoopDone) =>
          (lport["cmd"] = 54321 /\ nread["cmd"] = 2)

\* C2 witness: the first announcing line is the tenth line (index 9), more
\* lines follow it, and the loop has ended with its value after 10 lines
C2_Witness ==
    /\ Len(ReaderInput) > 10
    /\ Announcing(ReaderInput, 10) = {10}
    /\ pc["cmd"] = "check"
    /\ nread["cmd"] = 10
    /\ lport["cmd"] = 54321

\* C3: when none of the first 10 lines announces a port, the handshake never
\* takes more than 10 lines and never holds a port, the call stores nothing,
\* it can only return "Failed to read port from backend", and over 10 or more
\* lines its loop ends having taken exactly 10.
C3_NoPortInBudget ==
    Announcing(ReaderInput, 10) = {} =>
       /\ nread["cmd"] <= 10
       /\ lport["cmd"] = None
       /\ pc["cmd"] \notin {"store_process", "store_port"}
       /\ process = None /\ port = None
       /\ (pc["cmd"] = "check" /\ Len(ReaderInput) >= 10) => nread["cmd"] = 10
       /\ pc["cmd"] = "idle" =>
             result["cmd"] = Err("Failed to read port from backend")

\* C3 witness: 12 lines, the twelfth announcing a port, and the call has
\* returned the failure
C3_Witness ==
    /\ Len(ReaderInput) = 12
    /\ Announces(ReaderInput[12])
    /\ Announcing(ReaderInput, 10) = {}
    /\ pc["cmd"] = "idle"
    /\ result["cmd"] = Err("Failed to read port from backend")

\* C4: taking a line that announces no port (no PORT: prefix, a remainder that
\* is no numeral or is above 65535, or an unreadable line) uses up one unit of
\* the budget and nothing else: the loop goes on, no port is held, nothing is
\* returned; and a line announcing a port that follows such lines within the
\* first 10 is the one whose value the loop ends with.
C4_MalformedLinesSkipped ==
    /\ [][(pc["cmd"] = "read" /\ nread'["cmd"] # nread["cmd"]
             /\ ~Announces(ReaderInput[nread["cmd"] + 1]))
          => /\ nread'["cmd"] = nread["cmd"] + 1
             /\ pc'["cmd"] = "read"
             /\ lport'["cmd"] = None
             /\ result' = result
             /\ process' = process /\ port' = port]_vars
    /\ [](LET places == Announcing(ReaderInput, 10)
          IN  (ReaderLoopDone /\ places # {} /\ First(places) > 1)
              => lport["cmd"] = Announced(ReaderInput[First(places)]))

\* C4 witness: a line without the prefix, then a line with the prefix and an
\* out-of-range remainder, then a line announcing 443 whose value the loop has
\* ended with
C4_Witness ==
    /\ Len(ReaderInput) >= 3
    /\ ReaderInput[1] = OkLine(LBooting)
    /\ ReaderInput[2] = OkLine(LPortOver)
    /\ ReaderInput[3] = OkLine(LPortPadded)
    /\ pc["cmd"] = "check"
    /\ nread["cmd"] = 3
    /\ lport["cmd"] = 443

(***************************************************************************)
(* Claims about the supervisor, checked under Spec.                        *)
(***************************************************************************)
\* the port the output of child c announces within the budget
ChildPort(c) ==
    Announced(children[c].out.lines[
                 FirstAnnouncing(children[c].out.lines, 10)])

\* what get_backend_url is to return, from the history of starts alone
ExpectedUrl ==
    IF lastStart = None THEN Err("Backend not started yet")
    ELSE IF lastStart = 0 THEN Ok("http://localhost:8080")
    ELSE IF children[lastStart].out.lines = Scenario
         THEN Ok("http://localhost:54321")
    ELSE Ok("http://localhost:" \o ToString(ChildPort(lastStart)))

\* C1: every get_backend_url returns "Backend not started yet" while no
\* start_backend has succeeded, http://localhost:8080 after a Development
\* start, and http://localhost:<p> after a Production start, p being the port
\* the output of the child of the last successful start announces.
C1_GetUrlFollowsStarts ==
    [][\A t \in Tasks :
          (pc[t] = "url_locked" /\ pc'[t] # "url_locked")
          => result'[t] = ExpectedUrl]_vars

\* C1 witness: get_backend_url has returned the URL of a Production start
\* whose child announced 54321
C1_Witness ==
    /\ mode = Production
    /\ lastStart \in ChildIds
    /\ children[lastStart].out.lines = Scenario
    /\ pc["cmd"] = "idle"
    /\ result["cmd"] = Ok("http://localhost:54321")

BeforeStores == {"start", "spawn", "read", "check"}

StartErrors ==
    { Err("Failed to get resource dir: os error"),
      Err("Failed to start backend: os error"),
      Err("Failed to read port from backend") }

\* C5: a Production start_backend that returns one of its three errors does so
\* before its stores, and no step it takes before its stores changes the
\* process field or the port field.
C5_FailedStartKeepsState ==
    [][\A t \in Tasks :
          /\ (mode = Production /\ result[t] = Pending
                /\ result'[t] \in StartErrors) => pc[t] \in BeforeStores
          /\ (mode = Production /\ pc[t] \in BeforeStores
                /\ (pc'[t] # pc[t] \/ nread'[t] # nread[t]))
             => (process' = process /\ port' = port)]_vars

\* C5 witness: the auto-start stored child 1 and its port, then a start from
\* the front end spawned child 2 and failed on the handshake
C5_Witness ==
    /\ process = 1
    /\ port = 54321
    /\ Len(children) = 2
    /\ pc["cmd"] = "idle"
    /\ result["cmd"] = Err("Failed to read port from backend")

\* C6: in Development no child is ever spawned and no handle stored, and
\* every start_backend returns the Development message, sets the port to 8080
\* and changes nothing else; a repeated call leaves the state as it is.
C6_DevelopmentStart ==
    /\ [](mode = Development =>
             /\ children = <<>>
             /\ process = None
             /\ port \in {None, 8080}
             /\ \A t \in Tasks : result[t] \notin StartErrors)
    /\ [][\A t \in Tasks :
             (mode = Development /\ pc[t] = "start" /\ pc'[t] # "start")
             => /\ result'[t] = Ok(DevMessage)
                /\ port' = 8080
                /\ process' = process
                /\ children' = children
                /\ files' = files
                /\ (port = 8080 => port' = port)]_vars

\* C6 witness: a Development start has returned
C6_Witness ==
    /\ mode = Development
    /\ port = 8080
    /\ process = None
    /\ children = <<>>
    /\ pc["cmd"] = "idle"
    /\ result["cmd"] = Ok(DevMessage)

\* C7: at most one child spawned by the supervisor is alive.
C7_AtMostOneChildAlive == Cardinality(Alive) <= 1

\* C8: no step resets a stored port to None or clears a stored handle.
C8_StateMonotone ==
    [][/\ port # None => port' # None
       /\ process # None => process' # None]_vars

\* C8 witness: with a handle and a port stored, a later start has failed to
\* spawn
C8_Witness ==
    /\ process # None
    /\ port # None
    /\ pc["cmd"] = "idle"
    /\ result["cmd"] = Err("Failed to start backend: os error")

\* C9: the stored port is None or within 1..65535, and no returned message
\* reports port 0.
C9_NoZeroPort ==
    /\ port = None \/ port \in 1..65535
    /\ \A t \in Tasks :
          result[t].msg \notin { "Backend started on port 0",
                                 "http://localhost:0",
                                 "Backend status: Running on http://localhost:0" }

\* C10: once a port is stored, every later state stores the same port.
C10_PortImmutable == [][port # None => port' = port]_vars

(***************************************************************************)
(* Claims about tasks running side by side, checked under Spec.            *)
(***************************************************************************)
\* the places of a Production start_backend after its spawn
AfterSpawn == {"read", "check", "store_process", "store_port"}

StartInFlight(t) == pc[t] \in {"start", "spawn"} \cup AfterSpawn

\* C11: a get_backend_url that returns while no start_backend has yet stored
\* its port returns "Backend not started yet", wherever the other task's
\* Production start stands (child spawned, port found, handle stored); one
\* that returns after a Production start stored its port returns the URL of
\* the port stored.
C11_GetUrlDuringStart ==
    [][\A t \in Tasks :
          (mode = Production /\ pc[t] = "url_locked" /\ pc'[t] # "url_locked")
          => /\ lastStart = None =>
                   result'[t] = Err("Backend not started yet")
             /\ lastStart # None =>
                   /\ result'[t] =
                         Ok("http://localhost:" \o ToString(ChildPort(lastStart)))
                   /\ port = ChildPort(lastStart)]_vars

\* C11 witness: the auto-start has stored the handle of child 1 and not yet
\* its port, and get_backend_url has returned "Backend not started yet"
C11_Witness ==
    /\ pc["auto"] = "store_port"
    /\ process = 1
    /\ lport["auto"] = 54321
    /\ port = None
    /\ pc["cmd"] = "idle"
    /\ result["cmd"] = Err("Backend not started yet")

\* a task waiting in the handshake for a line that is not there
BlockedInHandshake(t) ==
    /\ pc[t] = "read"
    /\ nread[t] < LineBudget
    /\ nread[t] = Len(children[child[t]].out.lines)
    /\ children[child[t]].out.end = "stall"

\* C12: a task holds no lock while it resolves the path, spawns or reads the
\* handshake, nor between its two stores; no task holds both locks; the port
\* lock is held only by a task inside get_backend_url, so that a query finds
\* it free and a task waiting for it is never kept waiting by a task that
\* cannot go on.
C12_LockDiscipline ==
    /\ procLock = Free
    /\ \A t \in Tasks :
          /\ StartInFlight(t) => (procLock # t /\ portLock # t)
          /\ ~(procLock = t /\ portLock = t)
          /\ portLock = t <=> pc[t] \in {"url_locked", "status_locked"}
          /\ pc[t] \in {"get_url", "get_status"} => ENABLED LockPort(t)
          /\ pc[t] = "url_locked" => ENABLED GetUrl(t)
          /\ pc[t] = "status_locked" => ENABLED GetStatus(t)
          /\ pc[t] = "store_process" => ENABLED StoreProcess(t)
          /\ (pc[t] = "store_port" /\ ~ENABLED StorePort(t)) =>
                \E u \in Tasks \ {t} : ENABLED GetUrl(u) \/ ENABLED GetStatus(u)

\* C12 witness: the auto-start is blocked in the handshake and the front end's
\* get_backend_url holds the port lock
C12_Witness ==
    /\ BlockedInHandshake("auto")
    /\ pc["cmd"] = "url_locked"
    /\ portLock = "cmd"

AutoFailed == pc["auto"] = "done" /\ result["auto"].st = "err"

\* C13: the auto-start task exists in Production only and calls start_backend
\* once: it never sleeps or starts again.  When its call fails, that step
\* changes neither field and nothing of the front end's task; afterwards
\* every command can still be invoked, and until a start from the front end
\* stores its port no port is stored, no handle is stored but by a start from
\* the front end on its way to its port store, and every query returns
\* "Backend not started yet".
C13_AutoStartOnceAndSwallowed ==
    /\ [](mode = Development => pc["auto"] = "off")
    /\ [](mode = Production => pc["auto"] # "off")
    /\ [][/\ pc'["auto"] = "sleep" => pc["auto"] = "sleep"
          /\ pc'["auto"] = "start" => pc["auto"] \in {"sleep", "start"}
          /\ pc["auto"] = "done" => pc'["auto"] = "done"]_vars
    /\ [][(result["auto"] = Pending /\ result'["auto"].st = "err")
          => /\ pc'["auto"] = "done"
             /\ process' = process /\ port' = port
             /\ pc'["cmd"] = pc["cmd"] /\ result'["cmd"] = result["cmd"]]_vars
    /\ []((AutoFailed /\ pc["cmd"] = "idle")
            => \A c \in Commands : ENABLED Invoke("cmd", c))
    /\ []((AutoFailed /\ lastStart = None)
            => /\ port = None
               /\ process = None \/ pc["cmd"] = "store_port")
    /\ [][(AutoFailed /\ lastStart = None
             /\ pc["cmd"] \in {"url_locked", "status_locked"}
             /\ pc'["cmd"] = "idle")
          => result'["cmd"] = Err("Backend not started yet")]_vars

\* C13 witness: the auto-start failed on the handshake, its child still runs,
\* and a later query has returned "Backend not started yet"
C13_Witness ==
    /\ AutoFailed
    /\ result["auto"] = Err("Failed to read port from backend")
    /\ Alive = {1}
    /\ port = None /\ process = None
    /\ pc["cmd"] = "idle"
    /\ result["cmd"] = Err("Backend not started yet")

\* C14: every get_backend_status returns "Backend not started yet" when no
\* port is stored and otherwise "Backend status: Running on
\* http://localhost:<stored port>", whatever the children do, and changes no
\* field, child or file.
C14_StatusFromStoredPort ==
    [][\A t \in Tasks :
          (pc[t] = "status_locked" /\ pc'[t] # "status_locked")
          => /\ port = None => result'[t] = Err("Backend not started yet")
             /\ port # None =>
                   result'[t] = Ok("Backend status: Running on http://localhost:"
                                     \o ToString(port))
             /\ port = 54321 =>
                   result'[t] =
                      Ok("Backend status: Running on http://localhost:54321")
             /\ result'[t].st = "ok" <=> port # None
             /\ process' = process /\ port' = port
             /\ children' = children /\ files' = files]_vars

\* C14 witness: the status says Running on the stored port although the
\* stored child has ended and no child is alive
C14_Witness ==
    /\ process = 1
    /\ port = 54321
    /\ Alive = {}
    /\ pc["cmd"] = "idle"
    /\ result["cmd"] = Ok("Backend status: Running on http://localhost:54321")

\* C15: the dialog step writes nothing: on a cancelled dialog it returns
\* "Save cancelled", on a URL "URL paths not supported", and only on a local
\* path does the call go on to write.  The write then puts the given bytes,
\* unchanged, into the chosen file, touches no other file and returns the
\* path, or returns "Failed to save file: ..".  Files change in no other step,
\* and no step of the call changes the process or port field or a child.
C15_SaveFile ==
    [][/\ files' # files => pc["cmd"] = "save_write"
       /\ \A t \in Tasks :
             /\ (pc[t] = "save" /\ pc'[t] # "save")
                => /\ files' = files
                   /\ \/ /\ pc'[t] = "save_write"
                         /\ result'[t] = Pending
                         /\ arg' = arg
                      \/ /\ pc'[t] = "idle"
                         /\ result'[t] \in { Err("Save cancelled"),
                                             Err("URL paths not supported") }
             /\ (pc[t] = "save_write" /\ pc'[t] # "save_write")
                => /\ pc'[t] = "idle"
                   /\ \/ /\ result'[t] = Ok(SavePath)
                         /\ [path |-> SavePath, data |-> arg] \in files'
                         /\ \A f \in files' : f.path = SavePath => f.data = arg
                      \/ result'[t] = Err("Failed to save file: os error")
                   /\ \A f \in files : f.path # SavePath => f \in files'
                   /\ \A f \in files' : f.path # SavePath => f \in files
             /\ (pc[t] \in {"save", "save_write"} /\ pc'[t] # pc[t])
                => /\ process' = process /\ port' = port
                   /\ children' = children]_vars

\* C15 witness: the bytes 104, 105 stand in the chosen file and the call has
\* returned its path
C15_Witness ==
    /\ files = {[path |-> SavePath, data |-> <<104, 105>>]}
    /\ pc["cmd"] = "idle"
    /\ result["cmd"] = Ok(SavePath)

\* the auto-start task has spawned no child and has no call running: every
\* child is then the child of a start from the front end, and those starts
\* run one after the other
AutoNeverSpawned ==
    \/ pc["auto"] = "sleep"
    \/ /\ pc["auto"] = "done"
       /\ result["auto"] \in { Err("Failed to get resource dir: os error"),
                               Err("Failed to start backend: os error") }

\* C16: when a Production start_backend succeeds after an earlier one has,
\* the calls running one after the other, it has spawned a child of its own,
\* its port store leaves the handle of that child and the port that child
\* announced stored and leaves every child as it was; that remains so while
\* no further start has stored a handle; and no step of any task ever ends a
\* child.
C16_SecondStartReplacesFirst ==
    /\ [][(AutoNeverSpawned /\ lastStart \in ChildIds
             /\ pc["cmd"] = "store_port" /\ pc'["cmd"] # "store_port")
          => /\ Len(children) >= 2
             /\ child["cmd"] > lastStart
             /\ lastStart' = child["cmd"]
             /\ process' = child["cmd"]
             /\ port' = ChildPort(child["cmd"])
             /\ children' = children]_vars
    /\ []((AutoNeverSpawned /\ lastStart \in ChildIds
             /\ pc["cmd"] # "store_port")
            => /\ process = lastStart
               /\ port = ChildPort(lastStart))
    /\ [][(\E c \in ChildIds : children[c].alive /\ ~children'[c].alive)
          => (pc' = pc /\ process' = process /\ port' = port)]_vars

\* C16 witness: the auto-start failed before its spawn; two starts from the
\* front end spawned child 1 (PORT:54321) and child 2 (PORT:0), the second
\* has returned, its handle and port are stored and both children run
C16_Witness ==
    /\ result["auto"] = Err("Failed to get resource dir: os error")
    /\ Len(children) >= 2
    /\ children[1].out.lines = Scenario
    /\ children[2].out.lines = <<OkLine(LPortZero)>>
    /\ lastStart = 2
    /\ process = 2
    /\ port = 0
    /\ {1, 2} \subseteq Alive
    /\ pc["cmd"] = "idle"
    /\ result["cmd"] = Ok("Backend started on port 0")

NoStartInFlight == \A t \in Tasks : ~StartInFlight(t)

\* C18: in Production, whenever no start_backend is running and a port is
\* stored, a handle is stored and the stored port is the port the child of
\* that handle announced.
C18_HandlePortConsistent ==
    (mode = Production /\ NoStartInFlight /\ port # None)
    => /\ process \in ChildIds
       /\ port = ChildPort(process)

\* C19: whenever no start_backend is running, every child that is alive is
\* the child whose handle is stored.
C19_NoOrphanedChild == NoStartInFlight => Alive \subseteq {process}

(***************************************************************************)
(* Termination of the handshake, checked under SpecHandshake, where a      *)
(* child that has stalled never writes again and never closes its output.  *)
(***************************************************************************)
\* the output holds fewer than 10 lines, none announcing a port, and is then
\* left open and silent
Hanging(out) ==
    /\ out.end = "stall"
    /\ Len(out.lines) < 10
    /\ Announcing(out.lines, 10) = {}

PlaceRank ==
    [place \in {"read", "check", "store_process", "store_port", "idle"} |->
        IF place = "read" THEN 4
        ELSE IF place = "check" THEN 3
        ELSE IF place = "store_process" THEN 2
        ELSE IF place = "store_port" THEN 1
        ELSE 0]

\* what is left of the call: the lines it may still take and the places it
\* still has to pass
StepsLeft ==
    IF pc["cmd"] = "idle" THEN 0
    ELSE 4 * (10 - nread["cmd"]) + PlaceRank[pc["cmd"]]

\* C17: every step of a start_backend past its spawn lessens what is left of
\* the call.  When the child's output announces a port within its first 10
\* lines, or has 10 lines, or ends, the call has returned or can take a step,
\* so it returns.  When the output has fewer than 10 lines, none announcing a
\* port, and then stays open and silent, the call never leaves its loop,
\* never returns, never changes the process or port field, and once it has
\* taken the lines there are it can take no step at all.
C17_HandshakeTermination ==
    /\ [][StepsLeft' < StepsLeft]_vars
    /\ [](StepsLeft >= 0)
    /\ [](~Hanging(children[1].out)
            => (pc["cmd"] = "idle" \/ ENABLED NextReader))
    /\ [](pc["cmd"] = "idle" => result["cmd"] # Pending)
    /\ [](Hanging(children[1].out)
            => /\ pc["cmd"] = "read"
               /\ result["cmd"] = Pending
               /\ process = None /\ port = None
               /\ nread["cmd"] = Len(ReaderInput) => ~ENABLED NextReader)

\* C17 witness: the call has taken the 9 lines of an output that announces no
\* port and stays open, and waits for a tenth
C17_Witness ==
    /\ Hanging(children[1].out)
    /\ Len(ReaderInput) = 9
    /\ nread["cmd"] = 9
    /\ pc["cmd"] = "read"
    /\ result["cmd"] = Pending
    /\ ~ENABLED NextReader

====
